---- MODULE Spec2Model ----
(***************************************************************************)
(* Model of the operational-transformation engine of CodeSync              *)
(* (backend/src/services/operationTransform.ts).                           *)
(*                                                                         *)
(* Values.  A string is a sequence of one-character strings.  A JavaScript *)
(* object is a record whose domain holds exactly the properties that are   *)
(* not undefined, so an Operation of type insert has no "length" and one   *)
(* of type delete or retain has no "content".  A call that throws yields   *)
(* the record [threw |-> message] in place of its return value.  An        *)
(* optional argument or a nullable result is <<>> when missing or null and *)
(* <<v>> when it is v.  The Map of an OperationHistory is a function whose *)
(* domain holds the keys that are set.                                     *)
(***************************************************************************)
EXTENDS Integers, Sequences, FiniteSets, TLC

VARIABLES
  call,        \* the call under way, [fn |-> "none"] between calls
  ret,         \* what the call under way returns or throws
  operations,  \* OperationHistory.operations: fileId -> log, a key per stored log
  appended     \* per fileId, every operation appended since the log was last cleared

vars == <<call, ret, operations, appended>>

\* ------------------------------------------------------------------ bounds

MaxText == 2

MaxContent == 2

MaxCount == 2
\* OperationHistory.maxHistorySize, 1000 in the source, scaled down
maxHistorySize == 2
\* operations appended to the logs and not cleared since
MaxAppends == 4
\* longest list handed to resolveConflicts
MaxExisting == 2
\* longest script handed to transformTextOperations and composeTextOperations
MaxSteps == 2

\* ------------------------------------------------------------- input sets

Alphabet == {"a", "b"}

RECURSIVE Strings(_)
Strings(n) ==
  IF n = 0 THEN {<<>>}
  ELSE LET shorter == Strings(n - 1)
       IN  shorter \cup {Append(s, c) : s \in {t \in shorter : Len(t) = n - 1}, c \in Alphabet}

Texts == Strings(MaxText)

Contents == Strings(MaxContent) \ {<<>>}

Counts == 1..MaxCount

Ids == {"op1", "op2"}

Authors == {<<"u", "a">>, <<"u", "b">>}

Timestamps == {1000, 1001}

FileIds == {"file1", "file2"}

\* interface Operation: the operations the validator accepts
Operation ==
  [id : Ids, type : {"insert"}, content : Contents,
   author : Authors, timestamp : Timestamps, fileId : FileIds]
  \cup
  [id : Ids, type : {"delete", "retain"}, length : Counts,
   author : Authors, timestamp : Timestamps, fileId : FileIds]

\* the steps of a TextOperation, of any length, zero and negative included
StepLengths == (0 - 1)..MaxCount

Steps ==
  {[type |-> "insert", content |-> <<"a">>]}
    \cup {[type |-> t, length |-> n] : t \in {"retain", "delete"}, n \in StepLengths}

\* the TextOperations of at most n steps
RECURSIVE Scripts(_)
Scripts(n) ==
  IF n = 0 THEN {[ops |-> <<>>]}
  ELSE Scripts(n - 1) \cup
       { [ops |-> Append(t.ops, step)] :
           t \in { u \in Scripts(n - 1) : Len(u.ops) = n - 1 }, step \in Steps }

WithField(o, f, v) == [k \in (DOMAIN o) \cup {f} |-> IF k = f THEN v ELSE o[k]]

\* operations recorded in a history: the insert op1 and the delete op2, at
\* two times and in two files
HistoryOperation ==
  { [id |-> "op1", type |-> "insert", content |-> <<"a">>, author |-> <<"u", "a">>,
     timestamp |-> timestamp, fileId |-> fileId] :
    timestamp \in {0, 1000}, fileId \in FileIds }
  \cup
  { [id |-> "op2", type |-> "delete", length |-> 1, author |-> <<"u", "a">>,
     timestamp |-> timestamp, fileId |-> fileId] :
    timestamp \in {0, 1000}, fileId \in FileIds }

\* the timestamp handed to getOperations and getOperationsSince
Watermarks == {0, 500, 1000}

\* an operation of another author arriving at the resolver
IncomingOperation ==
  { [id |-> "op1", type |-> "insert", content |-> <<"b">>, author |-> <<"u", "b">>,
     timestamp |-> 1000, fileId |-> fileId] : fileId \in FileIds }
  \cup
  { [id |-> "op1", type |-> "delete", length |-> 2, author |-> <<"u", "b">>,
     timestamp |-> 1000, fileId |-> fileId] : fileId \in FileIds }

\* payloads of the operations handed to resolveConflicts
Payloads ==
  { [type |-> "insert", content |-> <<"a">>], [type |-> "delete", length |-> 1],
    [type |-> "delete", length |-> 2], [type |-> "retain", length |-> 1] }

Stamped(payload, id, author, timestamp) ==
  WithField(WithField(WithField(WithField(payload,
    "id", id), "author", author), "timestamp", timestamp), "fileId", "file1")

NewOperations ==
  { Stamped(p, "op1", a, t) : p \in Payloads, a \in Authors, t \in Timestamps }

ExistingOperations ==
  { Stamped(p, "op2", a, t) : p \in Payloads, a \in Authors, t \in Timestamps }

\* the lists of at most n existing operations
RECURSIVE ExistingLists(_)
ExistingLists(n) ==
  IF n = 0 THEN {<<>>}
  ELSE ExistingLists(n - 1) \cup
       { Append(l, e) : l \in { m \in ExistingLists(n - 1) : Len(m) = n - 1 },
                        e \in ExistingOperations }

\* authors for the tie-break, one a proper prefix of another
TieAuthors == {<<"u">>, <<"u", "a">>, <<"u", "b">>, <<"a", "u">>}

TieOperations ==
  { Stamped([type |-> "insert", content |-> <<"a">>], "op1", a, t) :
    a \in TieAuthors, t \in Timestamps }

\* What isValidOperation may be handed: each property absent (<<>>) or
\* present with a value (<<v>>); strings may be empty, numbers zero or negative.
Given(o, name, opt) == IF opt = <<>> THEN o ELSE WithField(o, name, opt[1])

Candidate(id, author, fileId, timestamp, type, content, length) ==
  Given(Given(Given(Given(Given(Given(Given([k \in {} |-> 0],
    "id", id), "type", type), "content", content), "length", length),
    "author", author), "timestamp", timestamp), "fileId", fileId)

Candidates ==
  { Candidate(id, author, fileId, timestamp, type, content, length) :
    id \in {<<>>, <<"">>, <<"op1">>},
    author \in {<<>>, << <<>> >>, << <<"u", "a">> >>},
    fileId \in {<<>>, <<"">>, <<"file1">>},
    timestamp \in {<<>>, <<0>>, <<1000>>},
    type \in {<<>>, <<"insert">>, <<"delete">>, <<"retain">>, <<"replace">>},
    content \in {<<>>, << <<>> >>, << <<"a">> >>},
    length \in {<<>>, <<0 - 1>>, <<0>>, <<1>>} }

\* ---------------------------------------------------------------- helpers

Has(o, f) == f \in DOMAIN o

Without(o, f) == [k \in (DOMAIN o) \ {f} |-> o[k]]

Min(a, b) == IF a <= b THEN a ELSE b

Max(a, b) == IF a >= b THEN a ELSE b

\* a thrown exception, in place of a return value
Throw(msg) == [threw |-> msg]

Threw(x) == Has(x, "threw")

\* substring as a range check would have it: a range that runs past the end
\* of the string yields nothing
substringWithinRange(s, start, end) ==
  IF end > Len(s) THEN <<>> ELSE SubSeq(s, Max(0, start) + 1, end)

\* String.prototype.substring: both indices are clamped to 0..length and
\* swapped when start > end
substring(s, start, end) ==
  LET a  == Max(0, Min(start, Len(s)))
      b  == Max(0, Min(end, Len(s)))
  IN  SubSeq(s, Min(a, b) + 1, Max(a, b))

\* UTF-16 code units of the alphabet, for the relational operators on strings
CodeUnit(c) == CASE c = "a" -> 97 [] c = "b" -> 98 [] c = "u" -> 117

\* s > t on strings: lexicographic on code units, a proper prefix is smaller
RECURSIVE StringGreater(_, _)
StringGreater(s, t) ==
  IF s = <<>> THEN FALSE
  ELSE IF t = <<>> THEN TRUE
  ELSE IF CodeUnit(Head(s)) # CodeUnit(Head(t)) THEN CodeUnit(Head(s)) > CodeUnit(Head(t))
  ELSE StringGreater(Tail(s), Tail(t))

\* --------------------------------------------- Operation <-> TextOperation

operationToTextOp(op) ==
  [ops |->
     CASE op.type = "insert" ->
            <<IF Has(op, "content") THEN [type |-> "insert", content |-> op.content]
                                    ELSE [type |-> "insert"]>>
       [] op.type = "delete" ->
            <<IF Has(op, "length") THEN [type |-> "delete", length |-> op.length]
                                   ELSE [type |-> "delete"]>>
       [] op.type = "retain" ->
            <<IF Has(op, "length") THEN [type |-> "retain", length |-> op.length]
                                   ELSE [type |-> "retain"]>>
       [] OTHER -> <<>>]

\* a conversion that overwrites content and length only when the first step
\* has them, so that the original operation's own show through
textOpToOperationKeepingOwn(textOp, originalOp) ==
  IF Len(textOp.ops) = 0
  THEN Throw("TypeError: Cannot read properties of undefined (reading 'type')")
  ELSE LET firstOp == textOp.ops[1]
           typed   == WithField(originalOp, "type", firstOp.type)
           c       == IF Has(firstOp, "content")
                      THEN WithField(typed, "content", firstOp.content) ELSE typed
       IN  IF Has(firstOp, "length") THEN WithField(c, "length", firstOp.length) ELSE c

\* a conversion that keeps the last step of the script instead of the first
textOpToOperationLastStep(textOp, originalOp) ==
  IF Len(textOp.ops) = 0
  THEN Throw("TypeError: Cannot read properties of undefined (reading 'type')")
  ELSE LET lastOp == textOp.ops[Len(textOp.ops)]
           base   == Without(Without(originalOp, "content"), "length")
           typed  == WithField(base, "type", lastOp.type)
           c      == IF Has(lastOp, "content")
                     THEN WithField(typed, "content", lastOp.content) ELSE typed
       IN  IF Has(lastOp, "length") THEN WithField(c, "length", lastOp.length) ELSE c

\* textOp.ops[0] is undefined for an empty script, and reading its type throws
textOpToOperation(textOp, originalOp) ==
  IF Len(textOp.ops) = 0
  THEN Throw("TypeError: Cannot read properties of undefined (reading 'type')")
  ELSE LET firstOp == textOp.ops[1]
           base    == Without(Without(originalOp, "content"), "length")
           typed   == WithField(base, "type", firstOp.type)
           c       == IF Has(firstOp, "content")
                      THEN WithField(typed, "content", firstOp.content) ELSE typed
       IN  IF Has(firstOp, "length") THEN WithField(c, "length", firstOp.length) ELSE c

\* ------------------------------------------------------------ apply engine

RECURSIVE ApplyLoop(_, _, _, _, _)
ApplyLoop(text, ops, k, result, index) ==
  IF k > Len(ops) THEN result
  ELSE LET op == ops[k]
       IN  CASE op.type = "retain" ->
                  ApplyLoop(text, ops, k + 1,
                            result \o substring(text, index, index + op.length),
                            index + op.length)
             [] op.type = "insert" ->
                  ApplyLoop(text, ops, k + 1, result \o op.content, index)
             [] op.type = "delete" ->
                  ApplyLoop(text, ops, k + 1, result, index + op.length)

\* the input characters a script walks over
RECURSIVE Consumed(_, _)
Consumed(ops, k) ==
  IF k > Len(ops) THEN 0
  ELSE (IF ops[k].type = "insert" THEN 0 ELSE ops[k].length) + Consumed(ops, k + 1)

\* applyTextOperation that copies the text its script did not walk over
applyTextOperationKeepingRest(text, operation) ==
  ApplyLoop(text, operation.ops, 1, <<>>, 0)
    \o substring(text, Consumed(operation.ops, 1), Len(text))

applyTextOperation(text, operation) == ApplyLoop(text, operation.ops, 1, <<>>, 0)

applyOperation(text, operation) ==
  applyTextOperation(text, operationToTextOp(operation))

\* -------------------------------------------------------- transform engine

\* compactTextOperation: consecutive steps of the same type are merged
LengthOr0(o) == IF Has(o, "length") THEN o.length ELSE 0

ContentOrEmpty(o) == IF Has(o, "content") THEN o.content ELSE <<>>

RECURSIVE CompactLoop(_, _, _)
CompactLoop(ops, k, compacted) ==
  IF k > Len(ops) THEN compacted
  ELSE LET op == ops[k]
           n  == Len(compacted)
       IN  IF n > 0 /\ compacted[n].type = op.type
           THEN IF op.type \in {"retain", "delete"}
                THEN CompactLoop(ops, k + 1,
                       [compacted EXCEPT ![n] =
                          WithField(@, "length", LengthOr0(@) + LengthOr0(op))])
                ELSE CompactLoop(ops, k + 1,
                       [compacted EXCEPT ![n] =
                          WithField(@, "content", ContentOrEmpty(@) \o ContentOrEmpty(op))])
           ELSE CompactLoop(ops, k + 1, Append(compacted, op))

compactTextOperation(textOp) == [ops |-> CompactLoop(textOp.ops, 1, <<>>)]

\* The state of the two-cursor sweep: the two copied scripts (their steps are
\* mutated in place), the cursors i and j (1-based here) and the result script.
SweepInit(op1, op2) ==
  [ops1 |-> op1.ops, ops2 |-> op2.ops, i |-> 1, j |-> 1, result |-> <<>>]

SweepRunning(st) == st.i <= Len(st.ops1) \/ st.j <= Len(st.ops2)

\* one iteration of the while loop of transformTextOperations
TransformStep(st, priority) ==
  LET ops1 == st.ops1
      ops2 == st.ops2
      i    == st.i
      j    == st.j
  IN
  IF i > Len(ops1)
  THEN [st EXCEPT !.result = Append(@, ops2[j]), !.j = j + 1]
  ELSE IF j > Len(ops2)
  THEN [st EXCEPT !.result = Append(@, ops1[i]), !.i = i + 1]
  ELSE
  LET operation1 == ops1[i]
      operation2 == ops2[j]
      t1 == operation1.type
      t2 == operation2.type
  IN
  CASE t1 = "retain" /\ t2 = "retain" ->
         LET minLength == Min(operation1.length, operation2.length)
             l1 == operation1.length - minLength
             l2 == operation2.length - minLength
         IN  [ops1 |-> [ops1 EXCEPT ![i].length = l1],
              ops2 |-> [ops2 EXCEPT ![j].length = l2],
              i |-> IF l1 = 0 THEN i + 1 ELSE i,
              j |-> IF l2 = 0 THEN j + 1 ELSE j,
              result |-> Append(st.result, [type |-> "retain", length |-> minLength])]
    [] t1 = "insert" /\ t2 = "insert" ->
         IF priority
         THEN [st EXCEPT !.result = Append(@, operation1), !.i = i + 1]
         ELSE [st EXCEPT
                 !.result = Append(Append(@, [type |-> "retain",
                                              length |-> Len(operation2.content)]),
                                   operation1),
                 !.i = i + 1, !.j = j + 1]
    [] t1 = "insert" /\ t2 = "retain" ->
         [st EXCEPT !.result = Append(@, operation1), !.i = i + 1]
    [] t1 = "insert" /\ t2 = "delete" ->
         [st EXCEPT !.result = Append(@, operation1), !.i = i + 1]
    [] t1 = "retain" /\ t2 = "insert" ->
         [st EXCEPT !.result = Append(@, [type |-> "retain",
                                          length |-> Len(operation2.content)]),
                    !.j = j + 1]
    [] t1 = "retain" /\ t2 = "delete" ->
         LET deleteLength == operation2.length
             retainLength == operation1.length
         IN  IF retainLength <= deleteLength
             THEN [st EXCEPT !.ops2 = [ops2 EXCEPT ![j].length = deleteLength - retainLength],
                             !.i = i + 1,
                             !.j = IF deleteLength - retainLength = 0 THEN j + 1 ELSE j]
             ELSE [st EXCEPT !.ops1 = [ops1 EXCEPT ![i].length = retainLength - deleteLength],
                             !.j = j + 1]
    [] t1 = "delete" /\ t2 = "retain" ->
         LET deleteLength == operation1.length
             retainLength == operation2.length
         IN  IF deleteLength <= retainLength
             THEN [st EXCEPT !.result = Append(@, operation1),
                             !.ops2 = [ops2 EXCEPT ![j].length = retainLength - deleteLength],
                             !.i = i + 1,
                             !.j = IF retainLength - deleteLength = 0 THEN j + 1 ELSE j]
             ELSE [st EXCEPT !.result = Append(@, [type |-> "delete", length |-> retainLength]),
                             !.ops1 = [ops1 EXCEPT ![i].length = deleteLength - retainLength],
                             !.j = j + 1]
    [] t1 = "delete" /\ t2 = "insert" ->
         [st EXCEPT !.result = Append(@, [type |-> "retain",
                                          length |-> Len(operation2.content)]),
                    !.j = j + 1]
    [] t1 = "delete" /\ t2 = "delete" ->
         LET minLength == Min(operation1.length, operation2.length)
             l1 == operation1.length - minLength
             l2 == operation2.length - minLength
         IN  [st EXCEPT !.ops1 = [ops1 EXCEPT ![i].length = l1],
                        !.ops2 = [ops2 EXCEPT ![j].length = l2],
                        !.i = IF l1 = 0 THEN i + 1 ELSE i,
                        !.j = IF l2 = 0 THEN j + 1 ELSE j]

RECURSIVE TransformLoop(_, _)
TransformLoop(st, priority) ==
  IF SweepRunning(st) THEN TransformLoop(TransformStep(st, priority), priority)
  ELSE st.result

transformTextOperations(op1, op2, priority) ==
  compactTextOperation([ops |-> TransformLoop(SweepInit(op1, op2), priority)])

\* transform that rebuilds the result on op2 instead of op1
transformOntoSecond(op1, op2, priority) ==
  IF op1.fileId # op2.fileId THEN op1
  ELSE textOpToOperation(
         transformTextOperations(operationToTextOp(op1), operationToTextOp(op2), priority),
         op2)

\* transform without the guard on fileId
transformIgnoringFileId(op1, op2, priority) ==
  textOpToOperation(
    transformTextOperations(operationToTextOp(op1), operationToTextOp(op2), priority),
    op1)

transform(op1, op2, priority) ==
  IF op1.fileId # op2.fileId THEN op1
  ELSE textOpToOperation(
         transformTextOperations(operationToTextOp(op1), operationToTextOp(op2), priority),
         op1)

\* ---------------------------------------------------------- compose engine

\* an iteration whose retain/retain branch forgets to consume what it emitted
ComposeStepNotConsuming(st) ==
  LET ops1 == st.ops1
      ops2 == st.ops2
      i    == st.i
      j    == st.j
  IN
  IF i > Len(ops1)
  THEN [st EXCEPT !.result = Append(@, ops2[j]), !.j = j + 1]
  ELSE IF j > Len(ops2)
  THEN [st EXCEPT !.result = Append(@, ops1[i]), !.i = i + 1]
  ELSE
  LET operation1 == ops1[i]
      operation2 == ops2[j]
      t1 == operation1.type
      t2 == operation2.type
  IN
  CASE t1 = "retain" /\ t2 = "retain" ->
         LET minLength == Min(operation1.length, operation2.length)
             l1 == operation1.length
             l2 == operation2.length
         IN  [ops1 |-> [ops1 EXCEPT ![i].length = l1],
              ops2 |-> [ops2 EXCEPT ![j].length = l2],
              i |-> IF l1 = 0 THEN i + 1 ELSE i,
              j |-> IF l2 = 0 THEN j + 1 ELSE j,
              result |-> Append(st.result, [type |-> "retain", length |-> minLength])]
    [] t1 = "insert" /\ t2 = "retain" ->
         LET l2 == operation2.length - Len(operation1.content)
         IN  [st EXCEPT !.result = Append(@, operation1),
                        !.ops2 = [ops2 EXCEPT ![j].length = l2],
                        !.i = i + 1,
                        !.j = IF l2 = 0 THEN j + 1 ELSE j]
    [] t1 = "insert" /\ t2 = "delete" ->
         LET insertLength == Len(operation1.content)
             deleteLength == operation2.length
         IN  IF insertLength <= deleteLength
             THEN [st EXCEPT !.ops2 = [ops2 EXCEPT ![j].length = deleteLength - insertLength],
                             !.i = i + 1,
                             !.j = IF deleteLength - insertLength = 0 THEN j + 1 ELSE j]
             ELSE [st EXCEPT
                     !.result = Append(@, [type |-> "insert",
                                           content |-> substring(operation1.content,
                                                                 deleteLength,
                                                                 Len(operation1.content))]),
                     !.i = i + 1, !.j = j + 1]
    [] OTHER ->
         [st EXCEPT !.result = Append(@, operation1), !.i = i + 1]

\* one iteration of the while loop of composeTextOperations
ComposeStep(st) ==
  LET ops1 == st.ops1
      ops2 == st.ops2
      i    == st.i
      j    == st.j
  IN
  IF i > Len(ops1)
  THEN [st EXCEPT !.result = Append(@, ops2[j]), !.j = j + 1]
  ELSE IF j > Len(ops2)
  THEN [st EXCEPT !.result = Append(@, ops1[i]), !.i = i + 1]
  ELSE
  LET operation1 == ops1[i]
      operation2 == ops2[j]
      t1 == operation1.type
      t2 == operation2.type
  IN
  CASE t1 = "retain" /\ t2 = "retain" ->
         LET minLength == Min(operation1.length, operation2.length)
             l1 == operation1.length - minLength
             l2 == operation2.length - minLength
         IN  [ops1 |-> [ops1 EXCEPT ![i].length = l1],
              ops2 |-> [ops2 EXCEPT ![j].length = l2],
              i |-> IF l1 = 0 THEN i + 1 ELSE i,
              j |-> IF l2 = 0 THEN j + 1 ELSE j,
              result |-> Append(st.result, [type |-> "retain", length |-> minLength])]
    [] t1 = "insert" /\ t2 = "retain" ->
         LET l2 == operation2.length - Len(operation1.content)
         IN  [st EXCEPT !.result = Append(@, operation1),
                        !.ops2 = [ops2 EXCEPT ![j].length = l2],
                        !.i = i + 1,
                        !.j = IF l2 = 0 THEN j + 1 ELSE j]
    [] t1 = "insert" /\ t2 = "delete" ->
         LET insertLength == Len(operation1.content)
             deleteLength == operation2.length
         IN  IF insertLength <= deleteLength
             THEN [st EXCEPT !.ops2 = [ops2 EXCEPT ![j].length = deleteLength - insertLength],
                             !.i = i + 1,
                             !.j = IF deleteLength - insertLength = 0 THEN j + 1 ELSE j]
             ELSE [st EXCEPT
                     !.result = Append(@, [type |-> "insert",
                                           content |-> substring(operation1.content,
                                                                 deleteLength,
                                                                 Len(operation1.content))]),
                     !.i = i + 1, !.j = j + 1]
    [] OTHER ->
         [st EXCEPT !.result = Append(@, operation1), !.i = i + 1]

RECURSIVE ComposeLoop(_)
ComposeLoop(st) ==
  IF SweepRunning(st) THEN ComposeLoop(ComposeStep(st)) ELSE st.result

composeTextOperations(op1, op2) ==
  compactTextOperation([ops |-> ComposeLoop(SweepInit(op1, op2))])

\* compose that puts the two steps side by side and cancels nothing
composeWithoutCancelling(op1, op2) ==
  IF op1.fileId # op2.fileId
  THEN Throw("Error: Cannot compose operations on different files")
  ELSE textOpToOperation(
         compactTextOperation(
           [ops |-> operationToTextOp(op1).ops \o operationToTextOp(op2).ops]),
         [op1 EXCEPT !.id = op2.id, !.timestamp = op2.timestamp])

\* compose without the guard on fileId
composeIgnoringFileId(op1, op2) ==
  textOpToOperation(
    composeTextOperations(operationToTextOp(op1), operationToTextOp(op2)),
    [op1 EXCEPT !.id = op2.id, !.timestamp = op2.timestamp])

\* compose that leaves op1's id and timestamp on the result
composeKeepingFirstIdentity(op1, op2) ==
  IF op1.fileId # op2.fileId
  THEN Throw("Error: Cannot compose operations on different files")
  ELSE textOpToOperation(
         composeTextOperations(operationToTextOp(op1), operationToTextOp(op2)),
         op1)

compose(op1, op2) ==
  IF op1.fileId # op2.fileId
  THEN Throw("Error: Cannot compose operations on different files")
  ELSE textOpToOperation(
         composeTextOperations(operationToTextOp(op1), operationToTextOp(op2)),
         [op1 EXCEPT !.id = op2.id, !.timestamp = op2.timestamp])

\* ------------------------------------------------- writes to the arguments

\* the sweeps' last state: st.ops1 and st.ops2 are the steps of the two
\* scripts as the loop, which writes to their length, leaves them
RECURSIVE TransformSweep(_, _)
TransformSweep(st, priority) ==
  IF SweepRunning(st) THEN TransformSweep(TransformStep(st, priority), priority) ELSE st

RECURSIVE ComposeSweep(_)
ComposeSweep(st) ==
  IF SweepRunning(st) THEN ComposeSweep(ComposeStep(st)) ELSE st

\* an operation whose script step is the operation object itself, so that
\* what the sweep writes to the step's length is written to the operation
operandAliased(op, stepsAfter) ==
  IF stepsAfter # <<>> /\ Has(stepsAfter[1], "length")
  THEN WithField(op, "length", stepsAfter[1].length)
  ELSE op

\* An operation after the sweep ran on the script operationToTextOp made of
\* it: the step is a new object literal holding copies of content and length,
\* so no write to the step reaches the operation.
operandAfter(op, stepsAfter) == op

\* op1 and op2 as a call of transform leaves them
transformOperands(op1, op2, priority) ==
  IF op1.fileId # op2.fileId THEN <<op1, op2>>
  ELSE LET st == TransformSweep(
                   SweepInit(operationToTextOp(op1), operationToTextOp(op2)), priority)
       IN  <<operandAfter(op1, st.ops1), operandAfter(op2, st.ops2)>>

\* op1 and op2 as a call of compose leaves them
composeOperands(op1, op2) ==
  IF op1.fileId # op2.fileId THEN <<op1, op2>>
  ELSE LET st == ComposeSweep(SweepInit(operationToTextOp(op1), operationToTextOp(op2)))
       IN  <<operandAfter(op1, st.ops1), operandAfter(op2, st.ops2)>>

\* text and operation as a call of applyOperation leaves them: the loop of
\* applyTextOperation reads the steps and writes to its own locals only
applyOperands(text, operation) ==
  <<text, operandAfter(operation, operationToTextOp(operation).ops)>>

\* op as a call of isValidOperation leaves it: the function only reads
isValidOperationOperand(op) == op


\* isValidOperation that lets a length of zero through
isValidOperationNonNegative(op) ==
  IF \/ ~Has(op, "id") \/ op.id = ""
     \/ ~Has(op, "author") \/ op.author = <<>>
     \/ ~Has(op, "fileId") \/ op.fileId = ""
     \/ ~Has(op, "timestamp") \/ op.timestamp = 0
  THEN FALSE
  ELSE IF ~Has(op, "type") THEN FALSE
  ELSE CASE op.type = "insert" -> Has(op, "content") /\ Len(op.content) > 0
         [] op.type = "delete" -> Has(op, "length") /\ op.length >= 0
         [] op.type = "retain" -> Has(op, "length") /\ op.length >= 0
         [] OTHER -> FALSE

\* !x is true of an absent property, of the empty string and of the number 0
isValidOperation(op) ==
  IF \/ ~Has(op, "id") \/ op.id = ""
     \/ ~Has(op, "author") \/ op.author = <<>>
     \/ ~Has(op, "fileId") \/ op.fileId = ""
     \/ ~Has(op, "timestamp") \/ op.timestamp = 0
  THEN FALSE
  ELSE IF ~Has(op, "type") THEN FALSE
  ELSE CASE op.type = "insert" -> Has(op, "content") /\ Len(op.content) > 0
         [] op.type = "delete" -> Has(op, "length") /\ op.length > 0
         [] op.type = "retain" -> Has(op, "length") /\ op.length > 0
         [] OTHER -> FALSE

\* -------------------------------------------------------- operation history

\* this.operations.get(fileId) || []
HistoryOf(ops, fileId) == IF fileId \in DOMAIN ops THEN ops[fileId] ELSE <<>>

\* the Map with the log of fileId set to history
WithHistory(ops, fileId, history) ==
  [d \in (DOMAIN ops) \cup {fileId} |-> IF d = fileId THEN history ELSE ops[d]]

\* an addOperation that never trims
addOperationUntrimmed(ops, fileId, operation) ==
  WithHistory(ops, fileId, Append(HistoryOf(ops, fileId), operation))

\* an addOperation that trims at the end of the log instead of its start
addOperationDroppingNewest(ops, fileId, operation) ==
  LET history == Append(HistoryOf(ops, fileId), operation)
  IN  WithHistory(ops, fileId,
        IF Len(history) > maxHistorySize
        THEN SubSeq(history, 1, maxHistorySize)
        ELSE history)

\* an addOperation that trims one operation too early
addOperationTrimmingEarly(ops, fileId, operation) ==
  LET history == Append(HistoryOf(ops, fileId), operation)
  IN  WithHistory(ops, fileId,
        IF Len(history) >= maxHistorySize
        THEN SubSeq(history, Len(history) - maxHistorySize + 2, Len(history))
        ELSE history)

\* push, then splice(0, length - maxHistorySize) once the log is too long
addOperation(ops, fileId, operation) ==
  LET history == Append(HistoryOf(ops, fileId), operation)
  IN  WithHistory(ops, fileId,
        IF Len(history) > maxHistorySize
        THEN SubSeq(history, Len(history) - maxHistorySize + 1, Len(history))
        ELSE history)

\* since is <<>> when the argument is left out and <<t>> when it is t;
\* `if (since)` is false for a missing argument and for 0
getOperations(ops, fileId, since) ==
  LET history == HistoryOf(ops, fileId)
      Later(op) == op.timestamp > since[1]
  IN  IF since # <<>> /\ since[1] # 0
      THEN SelectSeq(history, Later)
      ELSE history

\* <<>> stands for null, <<op>> for the operation op
getLastOperation(ops, fileId) ==
  LET history == HistoryOf(ops, fileId)
  IN  IF Len(history) > 0 THEN <<history[Len(history)]>> ELSE <<>>

\* a clear that empties the whole Map
clearDroppingAll(ops, fileId) == [d \in {} |-> <<>>]

clear(ops, fileId) == [d \in (DOMAIN ops) \ {fileId} |-> ops[d]]

clearAll(ops) == [d \in {} |-> <<>>]

\* -------------------------------------------------------- conflict resolver

\* a tie-break taken from the timestamps
priorityByTimestamp(newOperation, existingOp) ==
  newOperation.timestamp > existingOp.timestamp

\* const priority = newOperation.author > existingOp.author
priorityOf(newOperation, existingOp) ==
  StringGreater(newOperation.author, existingOp.author)

\* a resolver that skips the entries stamped at newOperation's own time
RECURSIVE ResolveLoopStrictlyEarlier(_, _, _, _)
ResolveLoopStrictlyEarlier(newOperation, existingOperations, k, transformedOp) ==
  IF k > Len(existingOperations) \/ Threw(transformedOp) THEN transformedOp
  ELSE LET existingOp == existingOperations[k]
       IN  IF /\ existingOp.timestamp < newOperation.timestamp
              /\ existingOp.author # newOperation.author
           THEN ResolveLoopStrictlyEarlier(newOperation, existingOperations, k + 1,
                  transform(transformedOp, existingOp,
                            priorityOf(newOperation, existingOp)))
           ELSE ResolveLoopStrictlyEarlier(newOperation, existingOperations, k + 1,
                                           transformedOp)

resolveConflictsStrictlyEarlier(newOperation, existingOperations) ==
  ResolveLoopStrictlyEarlier(newOperation, existingOperations, 1, newOperation)

\* the for loop of resolveConflicts; an exception thrown by transform leaves it
RECURSIVE ResolveLoop(_, _, _, _)
ResolveLoop(newOperation, existingOperations, k, transformedOp) ==
  IF k > Len(existingOperations) \/ Threw(transformedOp) THEN transformedOp
  ELSE LET existingOp == existingOperations[k]
       IN  IF /\ existingOp.timestamp <= newOperation.timestamp
              /\ existingOp.author # newOperation.author
           THEN ResolveLoop(newOperation, existingOperations, k + 1,
                  transform(transformedOp, existingOp,
                            priorityOf(newOperation, existingOp)))
           ELSE ResolveLoop(newOperation, existingOperations, k + 1, transformedOp)

resolveConflicts(newOperation, existingOperations) ==
  ResolveLoop(newOperation, existingOperations, 1, newOperation)

\* newOperation and the entries of existingOperations as resolveConflicts
\* leaves them.  own tells whether transformedOp is still the newOperation
\* object: transform returns op1 itself for another file and a new object
\* otherwise.
RECURSIVE ResolveOperandsLoop(_, _, _, _, _, _)
ResolveOperandsLoop(newOperation, existingOperations, k, transformedOp, own, after) ==
  IF k > Len(existingOperations) \/ Threw(transformedOp) THEN after
  ELSE LET existingOp == after.existingOperations[k]
       IN  IF /\ existingOp.timestamp <= newOperation.timestamp
              /\ existingOp.author # newOperation.author
           THEN LET flag     == priorityOf(newOperation, existingOp)
                    operands == transformOperands(transformedOp, existingOp, flag)
                IN  ResolveOperandsLoop(newOperation, existingOperations, k + 1,
                      transform(transformedOp, existingOp, flag),
                      own /\ transformedOp.fileId # existingOp.fileId,
                      [newOperation |-> IF own THEN operands[1] ELSE after.newOperation,
                       existingOperations |->
                         [after.existingOperations EXCEPT ![k] = operands[2]]])
           ELSE ResolveOperandsLoop(newOperation, existingOperations, k + 1,
                                    transformedOp, own, after)

resolveOperands(newOperation, existingOperations) ==
  ResolveOperandsLoop(newOperation, existingOperations, 1, newOperation, TRUE,
    [newOperation |-> newOperation, existingOperations |-> existingOperations])

\* A log after writes to the operations getOperations handed out: the array
\* returned is new, its elements are the log's own objects, in log order.
RECURSIVE WrittenBack(_, _, _)
WrittenBack(history, returned, after) ==
  IF history = <<>> THEN <<>>
  ELSE IF returned # <<>> /\ Head(history) = Head(returned)
       THEN <<Head(after)>> \o WrittenBack(Tail(history), Tail(returned), Tail(after))
       ELSE <<Head(history)>> \o WrittenBack(Tail(history), returned, after)

\* ConflictResolver.addOperation: the log is keyed by the operation's fileId
resolverAddOperation(ops, operation) ==
  addOperation(ops, operation.fileId, operation)

\* ConflictResolver.getOperationsSince
getOperationsSince(ops, fileId, timestamp) ==
  getOperations(ops, fileId, <<timestamp>>)

\* ------------------------------------------------------- callers of the engine

\* text after applying an operation that a previous call produced, or the
\* exception that call threw
ApplyResult(text, produced) ==
  IF Threw(produced) THEN produced ELSE [text |-> applyOperation(text, produced)]

\* A replica that applied its own operation to the base text and then takes in
\* the other replica's concurrent operation through the resolver.
ReplicaText(base, own, remote) ==
  ApplyResult(applyOperation(base, own), resolveConflicts(remote, <<own>>))

\* apply first, then second, each the outcome of a transform
ApplyBoth(text, first, second) ==
  IF Threw(first) THEN first
  ELSE ApplyResult(applyOperation(text, first), second)

\* ----------------------------------------------------------------- actions

\* No call is under way; the engine is synchronous, so calls do not overlap.
Idle == call.fn = "none"

Init ==
  /\ call = [fn |-> "none"]
  /\ ret = [value |-> <<>>]
  /\ operations = [d \in {} |-> <<>>]
  /\ appended = [d \in FileIds |-> <<>>]

ApplyOperation ==
  /\ Idle
  /\ UNCHANGED <<operations, appended>>
  /\ \E text \in Texts, operation \in Operation :
       /\ call' = [fn |-> "applyOperation", text |-> text, operation |-> operation]
       /\ ret' = [value |-> applyOperation(text, operation)]

Transform ==
  /\ Idle
  /\ UNCHANGED <<operations, appended>>
  /\ \E op1 \in Operation, op2 \in Operation, priority \in BOOLEAN :
       /\ op1.id # op2.id
       /\ call' = [fn |-> "transform", op1 |-> op1, op2 |-> op2, priority |-> priority]
       /\ ret' = [value |-> transform(op1, op2, priority)]

Compose ==
  /\ Idle
  /\ UNCHANGED <<operations, appended>>
  /\ \E op1 \in Operation, op2 \in Operation :
       /\ op1.id # op2.id
       /\ call' = [fn |-> "compose", op1 |-> op1, op2 |-> op2]
       /\ ret' = [value |-> compose(op1, op2)]

IsValidOperation ==
  /\ Idle
  /\ UNCHANGED <<operations, appended>>
  /\ \E op \in Candidates :
       /\ call' = [fn |-> "isValidOperation", op |-> op]
       /\ ret' = [value |-> isValidOperation(op)]

\* compose(op1, op2) applied to a text, beside op1 and op2 applied in sequence
ComposeThenApply ==
  /\ Idle
  /\ UNCHANGED <<operations, appended>>
  /\ \E text \in Texts, op1 \in Operation, op2 \in Operation :
       /\ op1.id # op2.id
       /\ op1.fileId = op2.fileId
       /\ call' = [fn |-> "composeThenApply", text |-> text, op1 |-> op1, op2 |-> op2]
       /\ ret' = [composed   |-> ApplyResult(text, compose(op1, op2)),
                  sequential |-> [text |-> applyOperation(applyOperation(text, op1), op2)]]

\* Two replicas of one document start from the same text; each applies its own
\* operation and then the other's, resolved against its own.
ResolveConcurrent ==
  /\ Idle
  /\ UNCHANGED <<operations, appended>>
  /\ \E text \in Texts, opA \in Operation, opB \in Operation :
       /\ opA.id # opB.id
       /\ opA.fileId = opB.fileId
       /\ call' = [fn |-> "resolveConcurrent", text |-> text, opA |-> opA, opB |-> opB]
       /\ ret' = [replicaA |-> ReplicaText(text, opA, opB),
                  replicaB |-> ReplicaText(text, opB, opA)]

\* test 'should maintain consistency with concurrent operations': op1 is
\* transformed with priority, op2 without, and both orders are applied
TransformConcurrent ==
  /\ Idle
  /\ UNCHANGED <<operations, appended>>
  /\ \E text \in Texts, op1 \in Operation, op2 \in Operation :
       /\ op1.id # op2.id
       /\ op1.fileId = op2.fileId
       /\ LET transformedOp1 == transform(op1, op2, TRUE)
              transformedOp2 == transform(op2, op1, FALSE)
          IN  /\ call' = [fn |-> "transformConcurrent", text |-> text,
                          op1 |-> op1, op2 |-> op2]
              /\ ret' = [text1 |-> ApplyBoth(text, transformedOp1, transformedOp2),
                         text2 |-> ApplyBoth(text, transformedOp2, transformedOp1)]

\* resolveConflicts on a new operation and a list of existing ones
ResolveConflicts ==
  /\ Idle
  /\ UNCHANGED <<operations, appended>>
  /\ \E newOperation \in NewOperations,
        existingOperations \in ExistingLists(MaxExisting) :
       /\ call' = [fn |-> "resolveConflicts", newOperation |-> newOperation,
                   existingOperations |-> existingOperations]
       /\ ret' = [value |-> resolveConflicts(newOperation, existingOperations)]

\* The flag of line 452 as two replicas compute it for the operations a and b,
\* each taking the other's as the new one, and as it is computed for a2 and
\* b2, operations of the same two authors stamped at other times.
TieBreak ==
  /\ Idle
  /\ UNCHANGED <<operations, appended>>
  /\ \E a \in TieOperations, b \in TieOperations,
        a2 \in TieOperations, b2 \in TieOperations :
       /\ a.author # b.author
       /\ a2.author = a.author /\ b2.author = b.author
       /\ call' = [fn |-> "tieBreak", a |-> a, b |-> b, a2 |-> a2, b2 |-> b2]
       /\ ret' = [ab  |-> priorityOf(a, b),   ba  |-> priorityOf(b, a),
                  ab2 |-> priorityOf(a2, b2), ba2 |-> priorityOf(b2, a2)]

\* number of operations appended to the logs and not cleared since
RECURSIVE TotalAppended(_, _)
TotalAppended(log, fileIds) ==
  IF fileIds = {} THEN 0
  ELSE LET d == CHOOSE x \in fileIds : TRUE
       IN  Len(log[d]) + TotalAppended(log, fileIds \ {d})

\* OperationHistory.addOperation, keyed as its caller keys it (line 464)
AddOperation ==
  /\ Idle
  /\ TotalAppended(appended, FileIds) < MaxAppends
  /\ \E operation \in HistoryOperation :
       /\ operations' = addOperation(operations, operation.fileId, operation)
       /\ appended' = [appended EXCEPT ![operation.fileId] = Append(@, operation)]
  /\ UNCHANGED <<call, ret>>

GetOperations ==
  /\ Idle
  /\ UNCHANGED <<operations, appended>>
  /\ \E fileId \in FileIds, since \in {<<>>} \cup {<<t>> : t \in Watermarks} :
       /\ call' = [fn |-> "getOperations", fileId |-> fileId, since |-> since]
       /\ ret' = [value |-> getOperations(operations, fileId, since)]

GetLastOperation ==
  /\ Idle
  /\ UNCHANGED <<operations, appended>>
  /\ \E fileId \in FileIds :
       /\ call' = [fn |-> "getLastOperation", fileId |-> fileId]
       /\ ret' = [value |-> getLastOperation(operations, fileId)]

\* clear and clearAll return nothing
Clear ==
  /\ Idle
  /\ \E fileId \in FileIds :
       /\ operations' = clear(operations, fileId)
       /\ appended' = [appended EXCEPT ![fileId] = <<>>]
       /\ call' = [fn |-> "clear", fileId |-> fileId]
       /\ ret' = [value |-> <<>>]

ClearAll ==
  /\ Idle
  /\ operations' = clearAll(operations)
  /\ appended' = [d \in FileIds |-> <<>>]
  /\ call' = [fn |-> "clearAll"]
  /\ ret' = [value |-> <<>>]

\* ConflictResolver.addOperation
ResolverAddOperation ==
  /\ Idle
  /\ TotalAppended(appended, FileIds) < MaxAppends
  /\ \E operation \in HistoryOperation :
       /\ operations' = resolverAddOperation(operations, operation)
       /\ appended' = [appended EXCEPT ![operation.fileId] = Append(@, operation)]
  /\ UNCHANGED <<call, ret>>

\* ConflictResolver.getOperationsSince
GetOperationsSince ==
  /\ Idle
  /\ UNCHANGED <<operations, appended>>
  /\ \E fileId \in FileIds, timestamp \in Watermarks :
       /\ call' = [fn |-> "getOperationsSince", fileId |-> fileId,
                   timestamp |-> timestamp]
       /\ ret' = [value |-> getOperationsSince(operations, fileId, timestamp)]

\* resolveConflicts on an incoming operation and the operations that
\* getOperationsSince returns for its document: the objects the log holds
ResolveAgainstRecorded ==
  /\ Idle
  /\ UNCHANGED appended
  /\ \E newOperation \in IncomingOperation, timestamp \in Watermarks :
       LET fileId == newOperation.fileId
           existingOperations == getOperationsSince(operations, fileId, timestamp)
           after == resolveOperands(newOperation, existingOperations)
       IN  /\ call' = [fn |-> "resolveAgainstRecorded", newOperation |-> newOperation,
                       existingOperations |-> existingOperations]
           /\ ret' = [value |-> resolveConflicts(newOperation, existingOperations)]
           /\ operations' =
                IF fileId \in DOMAIN operations
                THEN [operations EXCEPT ![fileId] =
                        WrittenBack(@, existingOperations, after.existingOperations)]
                ELSE operations

\* The loops of transformTextOperations and composeTextOperations, one
\* iteration at a time; call.st is the state of the sweep.
TransformStart ==
  /\ Idle
  /\ UNCHANGED <<ret, operations, appended>>
  /\ \E op1 \in Scripts(MaxSteps), op2 \in Scripts(MaxSteps), priority \in BOOLEAN :
       call' = [fn |-> "transformTextOperations", priority |-> priority,
                st |-> SweepInit(op1, op2)]

TransformIterate ==
  /\ call.fn = "transformTextOperations"
  /\ SweepRunning(call.st)
  /\ call' = [call EXCEPT !.st = TransformStep(@, call.priority)]
  /\ UNCHANGED <<ret, operations, appended>>

ComposeStart ==
  /\ Idle
  /\ UNCHANGED <<ret, operations, appended>>
  /\ \E op1 \in Scripts(MaxSteps), op2 \in Scripts(MaxSteps) :
       call' = [fn |-> "composeTextOperations", st |-> SweepInit(op1, op2)]

ComposeIterate ==
  /\ call.fn = "composeTextOperations"
  /\ SweepRunning(call.st)
  /\ call' = [call EXCEPT !.st = ComposeStep(@)]
  /\ UNCHANGED <<ret, operations, appended>>

\* the loop is over: the function compacts call.st.result and returns it
SweepReturn ==
  /\ call.fn \in {"transformTextOperations", "composeTextOperations"}
  /\ ~SweepRunning(call.st)
  /\ call' = [fn |-> "none"]
  /\ UNCHANGED <<ret, operations, appended>>

\* the caller takes the result; the next call may start
Return ==
  /\ ~Idle
  /\ UNCHANGED <<operations, appended>>
  /\ call' = [fn |-> "none"]
  /\ ret' = [value |-> <<>>]

\* transform and compose, each called on its own
Next ==
  \/ Transform
  \/ Compose
  \/ Return

Spec == Init /\ [][Next]_vars

\* transform, and resolveConflicts which folds it
NextTransformResolve ==
  \/ Transform
  \/ ResolveConflicts
  \/ Return

SpecTransformResolve == Init /\ [][NextTransformResolve]_vars

\* the two sweeps, iteration by iteration; the code is synchronous, so a
\* loop that can take its next iteration takes it
NextSweep ==
  \/ TransformStart
  \/ TransformIterate
  \/ ComposeStart
  \/ ComposeIterate
  \/ SweepReturn

SpecSweep ==
  /\ Init
  /\ [][NextSweep]_vars
  /\ WF_vars(TransformIterate)
  /\ WF_vars(ComposeIterate)
  /\ WF_vars(SweepReturn)

\* The engine's functions called before anything is recorded, and
\* resolveConflicts called on what a resolver has recorded.
NextPurity ==
  \/ /\ DOMAIN operations = {}
     /\ \/ ApplyOperation
        \/ Transform
        \/ Compose
        \/ IsValidOperation
        \/ ResolveConflicts
  \/ ResolverAddOperation
  \/ ResolveAgainstRecorded
  \/ Return

SpecPurity == Init /\ [][NextPurity]_vars

\* applyOperation on its own
NextApply ==
  \/ ApplyOperation
  \/ Return

SpecApply == Init /\ [][NextApply]_vars

\* the validator on its own
NextValidator ==
  \/ IsValidOperation
  \/ Return

SpecValidator == Init /\ [][NextValidator]_vars

\* resolveConflicts and its tie-break
NextConflicts ==
  \/ ResolveConflicts
  \/ TieBreak
  \/ Return

SpecConflicts == Init /\ [][NextConflicts]_vars

\* an OperationHistory and its callers
NextHistory ==
  \/ AddOperation
  \/ GetOperations
  \/ GetLastOperation
  \/ Clear
  \/ ClearAll
  \/ Return

SpecHistory == Init /\ [][NextHistory]_vars

\* a ConflictResolver and its callers
NextResolver ==
  \/ ResolverAddOperation
  \/ GetOperationsSince
  \/ ResolveAgainstRecorded
  \/ Return

SpecResolver == Init /\ [][NextResolver]_vars

\* callers that chain the engine's functions
NextCallers ==
  \/ ComposeThenApply
  \/ ResolveConcurrent
  \/ TransformConcurrent
  \/ Return

SpecCallers == Init /\ [][NextCallers]_vars

\* ------------------------------------------------------------------ claims

\* C1: two-replica convergence.  For concurrent operations A and B on one
\* document with distinct authors and equal timestamps, the replica that
\* applies A and then resolveConflicts(B, [A]) and the replica that applies B
\* and then resolveConflicts(A, [B]) end with the same text.
C1_Convergence ==
  (/\ call.fn = "resolveConcurrent"
   /\ call.opA.author # call.opB.author
   /\ call.opA.timestamp = call.opB.timestamp)
  => (/\ ~Threw(ret.replicaA)
      /\ ~Threw(ret.replicaB)
      /\ ret.replicaA.text = ret.replicaB.text)

\* C2: diamond property for concurrent inserts.  For two inserts A and B by
\* different authors with the same timestamp, A' = transform(A, B, true) and
\* B' = transform(B, A, false): A' then B' gives the same string as B' then A'.
C2_DiamondInserts ==
  (/\ call.fn = "transformConcurrent"
   /\ call.op1.type = "insert"
   /\ call.op2.type = "insert"
   /\ call.op1.author # call.op2.author
   /\ call.op1.timestamp = call.op2.timestamp)
  => ret.text1 = ret.text2

\* C3: applyOperation(text, Delete(n)) is text without its first
\* min(n, |text|) characters.
C3_DeleteKeepsRest ==
  (call.fn = "applyOperation" /\ call.operation.type = "delete")
  => ret.value = SubSeq(call.text,
                        Min(call.operation.length, Len(call.text)) + 1,
                        Len(call.text))

\* C4: applyOperation(text, Insert(s)) is s followed by the whole of text.
C4_InsertKeepsText ==
  (call.fn = "applyOperation" /\ call.operation.type = "insert")
  => ret.value = call.operation.content \o call.text

\* C5: applyOperation(text, Retain(n)) is exactly the first min(n, |text|)
\* characters of text.
C5_RetainCopiesPrefix ==
  (call.fn = "applyOperation" /\ call.operation.type = "retain")
  => ret.value = SubSeq(call.text, 1, Min(call.operation.length, Len(call.text)))

\* a retain shorter than the text was applied and copied a proper prefix
C5_Witness ==
  /\ call.fn = "applyOperation"
  /\ call.operation.type = "retain"
  /\ call.operation.length = 1
  /\ Len(call.text) = 2
  /\ ret.value = <<call.text[1]>>

\* C6: applyOperation never fails.  It returns a string for every text and
\* operation; a Delete or Retain longer than the text is clamped to the text
\* (the retain copies all of it, the delete leaves nothing), and Delete(n)
\* with n >= |text| returns the empty string.
C6_ApplyNeverFails ==
  call.fn = "applyOperation"
  => /\ ret.value \in Seq(Alphabet)
     /\ (call.operation.type = "retain" /\ call.operation.length > Len(call.text))
          => ret.value = call.text
     /\ (call.operation.type = "delete" /\ call.operation.length >= Len(call.text))
          => ret.value = <<>>

\* a retain longer than a non-empty text was applied and returned the text
C6_Witness ==
  /\ call.fn = "applyOperation"
  /\ call.operation.type = "retain"
  /\ Len(call.text) > 0
  /\ call.operation.length > Len(call.text)
  /\ ret.value = call.text

\* C7: transform across documents returns its first argument with every
\* field unchanged, for either priority, and throws nothing.
C7_CrossDocumentTransform ==
  (call.fn = "transform" /\ call.op1.fileId # call.op2.fileId)
  => ret.value = call.op1

\* two inserts on different documents were transformed without priority (on
\* one document that call returns a retain)
C7_Witness ==
  /\ call.fn = "transform"
  /\ call.op1.fileId # call.op2.fileId
  /\ call.op1.type = "insert"
  /\ call.op2.type = "insert"
  /\ ~call.priority
  /\ ret.value = call.op1

\* C8: compose across documents throws 'Cannot compose operations on
\* different files' and returns no operation, whatever the types are.
C8_CrossDocumentCompose ==
  (call.fn = "compose" /\ call.op1.fileId # call.op2.fileId)
  => ret.value = Throw("Error: Cannot compose operations on different files")

\* a retain and an insert on different documents were composed
C8_Witness ==
  /\ call.fn = "compose"
  /\ call.op1.fileId # call.op2.fileId
  /\ call.op1.type = "retain"
  /\ call.op2.type = "insert"
  /\ Threw(ret.value)

\* C9: compose is equivalent to sequential application:
\* applyOperation(text, compose(op1, op2)) =
\* applyOperation(applyOperation(text, op1), op2).
C9_ComposeIsSequential ==
  call.fn = "composeThenApply" => ret.composed = ret.sequential

\* C10: the operation compose returns on one document has the id and the
\* timestamp of op2 and the author and fileId of op1.
C10_ComposeIdentity ==
  (/\ call.fn = "compose"
   /\ call.op1.fileId = call.op2.fileId
   /\ ~Threw(ret.value))
  => /\ ret.value.id = call.op2.id
     /\ ret.value.timestamp = call.op2.timestamp
     /\ ret.value.author = call.op1.author
     /\ ret.value.fileId = call.op1.fileId

\* two operations of one document that differ in id, timestamp and author
\* were composed into an operation
C10_Witness ==
  /\ call.fn = "compose"
  /\ call.op1.fileId = call.op2.fileId
  /\ call.op1.id # call.op2.id
  /\ call.op1.timestamp # call.op2.timestamp
  /\ call.op1.author # call.op2.author
  /\ ~Threw(ret.value)
  /\ ret.value.id = call.op2.id

\* C11: isValidOperation returns false for every operation that lacks id,
\* author, fileId or timestamp, for every Insert whose content is absent or
\* empty, for every Delete or Retain whose length is absent or <= 0, and for
\* every unknown type.
C11_RejectsMalformed ==
  (/\ call.fn = "isValidOperation"
   /\ \/ ~Has(call.op, "id")
      \/ ~Has(call.op, "author")
      \/ ~Has(call.op, "fileId")
      \/ ~Has(call.op, "timestamp")
      \/ ~Has(call.op, "type")
      \/ call.op.type \notin {"insert", "delete", "retain"}
      \/ (call.op.type = "insert"
            /\ (~Has(call.op, "content") \/ call.op.content = <<>>))
      \/ (call.op.type \in {"delete", "retain"}
            /\ (~Has(call.op, "length") \/ call.op.length <= 0)))
  => ret.value = FALSE

\* a delete with every provenance property and the length 0 was rejected
C11_Witness ==
  /\ call.fn = "isValidOperation"
  /\ Has(call.op, "id") /\ call.op.id # ""
  /\ Has(call.op, "author") /\ call.op.author # <<>>
  /\ Has(call.op, "fileId") /\ call.op.fileId # ""
  /\ Has(call.op, "timestamp") /\ call.op.timestamp # 0
  /\ Has(call.op, "type") /\ call.op.type = "delete"
  /\ Has(call.op, "length") /\ call.op.length = 0
  /\ ret.value = FALSE

\* C12: isValidOperation returns true for every operation with id, author,
\* fileId and timestamp present (the timestamp any number, 0 included) and a
\* payload that fits its type.
C12_AcceptsWellFormed ==
  (/\ call.fn = "isValidOperation"
   /\ Has(call.op, "id") /\ call.op.id # ""
   /\ Has(call.op, "author") /\ call.op.author # <<>>
   /\ Has(call.op, "fileId") /\ call.op.fileId # ""
   /\ Has(call.op, "timestamp")
   /\ Has(call.op, "type")
   /\ \/ (call.op.type = "insert"
            /\ Has(call.op, "content") /\ call.op.content # <<>>)
      \/ (call.op.type \in {"delete", "retain"}
            /\ Has(call.op, "length") /\ call.op.length > 0))
  => ret.value = TRUE

\* C13: for two inserts A and B on the same document, transform(A, B, true)
\* returns an insert whose content is exactly A.content.
C13_PriorityInsertIsAlone ==
  (/\ call.fn = "transform"
   /\ call.priority
   /\ call.op1.type = "insert" /\ call.op2.type = "insert"
   /\ call.op1.fileId = call.op2.fileId)
  => /\ ~Threw(ret.value)
     /\ ret.value.type = "insert"
     /\ Has(ret.value, "content")
     /\ ret.value.content = call.op1.content

\* C14: for an insert A and a delete or retain B on the same document,
\* transform(A, B, priority) returns an insert whose content is A.content,
\* whichever the priority.
C14_InsertSurvives ==
  (/\ call.fn = "transform"
   /\ call.op1.type = "insert" /\ call.op2.type \in {"delete", "retain"}
   /\ call.op1.fileId = call.op2.fileId)
  => /\ ~Threw(ret.value)
     /\ ret.value.type = "insert"
     /\ Has(ret.value, "content")
     /\ ret.value.content = call.op1.content

\* an insert was transformed against a delete of the same document
C14_Witness ==
  /\ call.fn = "transform"
  /\ call.op1.type = "insert" /\ call.op2.type = "delete"
  /\ call.op1.fileId = call.op2.fileId
  /\ call.op1.content = <<"a", "b">> /\ call.op2.length = 2
  /\ ~Threw(ret.value)
  /\ ret.value.type = "insert"
  /\ ret.value.content = <<"a", "b">>

\* C15: getOperationsSince(d, t) returns exactly the operations in d's log
\* whose timestamp is strictly greater than t, in append order, and the empty
\* list when d has no log.
C15_SinceIsStrictWindow ==
  call.fn = "getOperationsSince" =>
    LET log == IF call.fileId \in DOMAIN operations
               THEN operations[call.fileId] ELSE <<>>
        After(op) == op.timestamp > call.timestamp
    IN  ret.value = SelectSeq(log, After)

\* C16: the log of every document holds at most maxHistorySize operations.
C16_CapacityBound ==
  \A d \in DOMAIN operations : Len(operations[d]) <= maxHistorySize

\* more operations than the log may hold were appended to a document without
\* a clear, and its log is full
C16_Witness ==
  \E d \in DOMAIN operations :
    /\ Len(appended[d]) > maxHistorySize
    /\ Len(operations[d]) = maxHistorySize

\* the last n elements of a sequence, all of it when it is shorter
LastN(seq, n) == SubSeq(seq, Len(seq) - Min(n, Len(seq)) + 1, Len(seq))

\* C17: after n operations were appended to a document's log with no clear in
\* between, the log is the last min(n, maxHistorySize) of them in append
\* order, as getOperations and getLastOperation show it.
C17_FifoEviction ==
  /\ \A d \in FileIds :
       /\ getOperations(operations, d, <<>>) = LastN(appended[d], maxHistorySize)
       /\ getLastOperation(operations, d) = LastN(appended[d], 1)
  /\ (call.fn = "getOperations" /\ call.since = <<>>)
       => ret.value = LastN(appended[call.fileId], maxHistorySize)
  /\ call.fn = "getLastOperation"
       => ret.value = LastN(appended[call.fileId], 1)

\* getOperations showed a log from which the oldest operation, unlike the
\* ones kept, had been evicted
C17_Witness ==
  /\ call.fn = "getOperations" /\ call.since = <<>>
  /\ Len(appended[call.fileId]) > maxHistorySize
  /\ Len(ret.value) = maxHistorySize
  /\ \A i \in 1..Len(ret.value) : ret.value[i] # appended[call.fileId][1]
  /\ ret.value[Len(ret.value)] = appended[call.fileId][Len(appended[call.fileId])]

\* the left fold of transform over a list of entries, starting from acc; the
\* flag is newOp.author > e.author, and an exception ends the fold
RECURSIVE FoldTransform(_, _, _)
FoldTransform(acc, entries, newOp) ==
  IF entries = <<>> \/ Threw(acc) THEN acc
  ELSE FoldTransform(
         transform(acc, Head(entries), StringGreater(newOp.author, Head(entries).author)),
         Tail(entries), newOp)

\* C18: resolveConflicts(newOp, ops) is the left fold, in list order, of
\* transform(acc, e, newOp.author > e.author) from acc = newOp over the
\* entries e of ops with e.timestamp <= newOp.timestamp and
\* e.author # newOp.author; it is newOp when no entry qualifies.
C18_ResolveIsFold ==
  call.fn = "resolveConflicts" =>
    LET Qualifies(e) == /\ e.timestamp <= call.newOperation.timestamp
                        /\ e.author # call.newOperation.author
        qualifying == SelectSeq(call.existingOperations, Qualifies)
    IN  /\ ret.value = FoldTransform(call.newOperation, qualifying, call.newOperation)
        /\ qualifying = <<>> => ret.value = call.newOperation

\* a list whose first entry is skipped as its author's own and whose second,
\* stamped at the new operation's time, qualifies and changes the operation
C18_Witness ==
  /\ call.fn = "resolveConflicts"
  /\ Len(call.existingOperations) = 2
  /\ call.existingOperations[1].author = call.newOperation.author
  /\ call.existingOperations[2].author # call.newOperation.author
  /\ call.existingOperations[2].timestamp = call.newOperation.timestamp
  /\ ~Threw(ret.value)
  /\ ret.value # call.newOperation

\* C19: for operations a and b of distinct authors the flags of the two
\* symmetric transforms are complementary, and the flag is the same for any
\* other two operations of the same two authors, whatever their timestamps.
C19_TieBreakDeterministic ==
  call.fn = "tieBreak" =>
    /\ ret.ab # ret.ba
    /\ ret.ab2 = ret.ab
    /\ ret.ba2 = ret.ba

\* the flag was computed for two authors, one a prefix of the other, whose
\* operations are stamped in one order in one pair and in the other order in
\* the other pair
C19_Witness ==
  /\ call.fn = "tieBreak"
  /\ call.a.author = <<"u", "a">> /\ call.b.author = <<"u">>
  /\ call.a.timestamp < call.b.timestamp
  /\ call.a2.timestamp > call.b2.timestamp
  /\ ret.ab /\ ~ret.ba

\* how many times an operation occurs in a list
Occurrences(list, op) == Cardinality({i \in 1..Len(list) : list[i] = op})

\* C20: an operation recorded by the resolver's addOperation is returned, all
\* fields unchanged, by getOperationsSince(op.fileId, t) for every
\* t < op.timestamp until maxHistorySize further operations were recorded for
\* its document.
C20_RecordedUntilEvicted ==
  /\ \A d \in FileIds : \A k \in 1..Len(appended[d]) :
       (/\ appended[d][k].fileId = d
        /\ Len(appended[d]) - k < maxHistorySize)
       => \A t \in Watermarks :
            t < appended[d][k].timestamp =>
              Occurrences(getOperationsSince(operations, d, t), appended[d][k])
                >= Occurrences(LastN(appended[d], Len(appended[d]) - k + 1),
                               appended[d][k])
  /\ call.fn = "getOperationsSince" =>
       \A k \in 1..Len(appended[call.fileId]) :
         (/\ Len(appended[call.fileId]) - k < maxHistorySize
          /\ call.timestamp < appended[call.fileId][k].timestamp)
         => Occurrences(ret.value, appended[call.fileId][k]) >= 1

\* getOperationsSince returned an operation recorded before the newest of its
\* document, one addOperation short of its eviction
C20_Witness ==
  /\ call.fn = "getOperationsSince"
  /\ Len(appended[call.fileId]) = maxHistorySize
  /\ Len(appended[call.fileId]) > 1
  /\ call.timestamp < appended[call.fileId][1].timestamp
  /\ appended[call.fileId][1] # appended[call.fileId][Len(appended[call.fileId])]
  /\ Len(ret.value) >= 1
  /\ ret.value[1] = appended[call.fileId][1]

\* type, content and length of an operation, as a step of a script has them
Payload(op) == [n \in (DOMAIN op) \cap {"type", "content", "length"} |-> op[n]]

\* C22: the operation returned by transform and by compose takes its type,
\* content and length from the first step of the compacted result script and
\* nothing from the later steps; for two inserts A and B on one document
\* transform(A, B, false) is a retain of length |B.content| without content.
C22_FirstStepOnly ==
  /\ (call.fn = "transform" /\ call.op1.fileId = call.op2.fileId /\ ~Threw(ret.value))
       => Payload(ret.value) =
            transformTextOperations(operationToTextOp(call.op1),
                                    operationToTextOp(call.op2), call.priority).ops[1]
  /\ (call.fn = "compose" /\ ~Threw(ret.value))
       => Payload(ret.value) =
            composeTextOperations(operationToTextOp(call.op1),
                                  operationToTextOp(call.op2)).ops[1]
  /\ (/\ call.fn = "transform" /\ call.op1.fileId = call.op2.fileId
      /\ call.op1.type = "insert" /\ call.op2.type = "insert" /\ ~call.priority)
       => /\ ~Threw(ret.value)
          /\ Payload(ret.value) = [type |-> "retain", length |-> Len(call.op2.content)]

\* transform(A, B, false) of two inserts returned a retain, although the
\* script it was taken from goes on with A's insert
C22_Witness ==
  /\ call.fn = "transform" /\ call.op1.fileId = call.op2.fileId
  /\ call.op1.type = "insert" /\ call.op2.type = "insert" /\ ~call.priority
  /\ call.op1.content = <<"a">> /\ call.op2.content = <<"b", "b">>
  /\ Len(transformTextOperations(operationToTextOp(call.op1),
                                 operationToTextOp(call.op2), FALSE).ops) = 2
  /\ ret.value.type = "retain" /\ ret.value.length = 2
  /\ ~Has(ret.value, "content")

\* C23: for A = Delete(a) and B = Delete(b) on one document,
\* transform(A, B, priority) is Delete(a - b) when a > b and an operation
\* that deletes nothing when a <= b.
C23_DeletesNotAppliedTwice ==
  (/\ call.fn = "transform" /\ call.op1.fileId = call.op2.fileId
   /\ call.op1.type = "delete" /\ call.op2.type = "delete")
  => /\ ~Threw(ret.value)
     /\ IF call.op1.length > call.op2.length
        THEN Payload(ret.value) =
               [type |-> "delete", length |-> call.op1.length - call.op2.length]
        ELSE ~(ret.value.type = "delete" /\ ret.value.length > 0)

\* C24: for op1 = Insert(s) and op2 = Delete(d) on one document,
\* compose(op1, op2) is Delete(d - |s|) when |s| < d and the insert of s
\* without its first d characters when |s| > d.
C24_InsertThenDeleteCancels ==
  (/\ call.fn = "compose" /\ call.op1.fileId = call.op2.fileId
   /\ call.op1.type = "insert" /\ call.op2.type = "delete")
  => LET s == call.op1.content
         d == call.op2.length
     IN  /\ Len(s) < d =>
               /\ ~Threw(ret.value)
               /\ Payload(ret.value) = [type |-> "delete", length |-> d - Len(s)]
         /\ Len(s) > d =>
               /\ ~Threw(ret.value)
               /\ Payload(ret.value) =
                    [type |-> "insert", content |-> SubSeq(s, d + 1, Len(s))]

\* the insert of "ab" composed with a delete of 1 left the insert of "b"
C24_Witness ==
  /\ call.fn = "compose" /\ call.op1.fileId = call.op2.fileId
  /\ call.op1.type = "insert" /\ call.op1.content = <<"a", "b">>
  /\ call.op2.type = "delete" /\ call.op2.length = 1
  /\ ~Threw(ret.value)
  /\ ret.value.type = "insert" /\ ret.value.content = <<"b">>

\* C25: addOperation for a document and clear of a document change the log of
\* that document only; a document cleared, or all of them by clearAll, has an
\* empty log and no last operation; every operation in the log of d has
\* fileId = d.
C25_PerDocumentIsolation ==
  /\ [][\A d \in FileIds :
         appended'[d] = appended[d]
           => HistoryOf(operations', d) = HistoryOf(operations, d)]_vars
  /\ [](\A d \in FileIds :
         appended[d] = <<>> =>
           /\ getOperations(operations, d, <<>>) = <<>>
           /\ getLastOperation(operations, d) = <<>>)
  /\ [](call.fn = "clear" =>
         /\ getOperations(operations, call.fileId, <<>>) = <<>>
         /\ getLastOperation(operations, call.fileId) = <<>>)
  /\ [](call.fn = "clearAll" => \A d \in FileIds : HistoryOf(operations, d) = <<>>)
  /\ [](\A d \in DOMAIN operations :
         \A k \in 1..Len(operations[d]) : operations[d][k].fileId = d)

\* clear has run on one document while the log of the other is full
C25_Witness ==
  /\ call.fn = "clear"
  /\ call.fileId \notin DOMAIN operations
  /\ \E d \in DOMAIN operations :
       /\ d # call.fileId
       /\ Len(operations[d]) = maxHistorySize
       /\ operations[d] = LastN(appended[d], maxHistorySize)

\* id, author, timestamp and fileId of an operation
Provenance(op) ==
  [n \in (DOMAIN op) \cap {"id", "author", "timestamp", "fileId"} |-> op[n]]

\* C26: the operation returned by transform(opA, opB, priority) has opA's id,
\* author, timestamp and fileId, and the one returned by
\* resolveConflicts(newOp, ops) has newOp's.
C26_ProvenanceKept ==
  /\ (call.fn = "transform" /\ ~Threw(ret.value))
       => Provenance(ret.value) = Provenance(call.op1)
  /\ (call.fn = "resolveConflicts" /\ ~Threw(ret.value))
       => Provenance(ret.value) = Provenance(call.newOperation)

\* transform changed the payload of an operation whose id, author and
\* timestamp all differ from the other operation's, and kept its provenance
C26_Witness ==
  /\ call.fn = "transform" /\ ~Threw(ret.value)
  /\ call.op1.fileId = call.op2.fileId
  /\ call.op1.id # call.op2.id
  /\ call.op1.author # call.op2.author
  /\ call.op1.timestamp # call.op2.timestamp
  /\ Payload(ret.value) # Payload(call.op1)
  /\ Provenance(ret.value) = Provenance(call.op1)
  /\ Provenance(ret.value) # Provenance(call.op2)

\* C27: for every two operations accepted by isValidOperation on the same
\* document and either priority, transform returns normally and the returned
\* operation is accepted by isValidOperation.
C27_TransformTotalOnValid ==
  (/\ call.fn = "transform"
   /\ isValidOperation(call.op1) /\ isValidOperation(call.op2)
   /\ call.op1.fileId = call.op2.fileId)
  => /\ ~Threw(ret.value)
     /\ isValidOperation(ret.value)

\* C28: compose(op1, op2) raises an error if and only if op1.fileId differs
\* from op2.fileId.
C28_ComposeFailsOnlyOnMismatch ==
  call.fn = "compose" =>
    (Threw(ret.value) <=> call.op1.fileId # call.op2.fileId)

\* C29: for two valid operations A and B on the same document the result of
\* transform(A, B, priority) is a delete only if A is a delete, an insert
\* only if A is an insert, and an insert of A's content alone.
C29_OnlyOwnEdit ==
  (/\ call.fn = "transform"
   /\ isValidOperation(call.op1) /\ isValidOperation(call.op2)
   /\ call.op1.fileId = call.op2.fileId
   /\ ~Threw(ret.value))
  => /\ ret.value.type = "delete" => call.op1.type = "delete"
     /\ ret.value.type = "insert" =>
          /\ call.op1.type = "insert"
          /\ ret.value.content = call.op1.content

\* a sweep is under way
Sweeping == call.fn \in {"transformTextOperations", "composeTextOperations"}

\* C30: every iteration of the loops of transformTextOperations and
\* composeTextOperations advances cursor i or cursor j and moves neither
\* back, and every sweep that was started returns.
C30_SweepsTerminate ==
  /\ [][(Sweeping /\ Sweeping') =>
         /\ call'.st.i >= call.st.i
         /\ call'.st.j >= call.st.j
         /\ call'.st.i + call'.st.j > call.st.i + call.st.j]_vars
  /\ (Sweeping ~> Idle)

\* the loop of transformTextOperations is over with both cursors past the end
\* of two-step scripts and three steps or more emitted
C30_Witness ==
  /\ call.fn = "transformTextOperations"
  /\ ~SweepRunning(call.st)
  /\ Len(call.st.ops1) = 2 /\ Len(call.st.ops2) = 2
  /\ call.st.i = 3 /\ call.st.j = 3
  /\ Len(call.st.result) >= 3

====
